---- MODULE Spec2Model ----
(***************************************************************************)
(* Cosmos Connect: the local caching layer (AdvancedCacheManager,          *)
(* src/js/caching.js) over the browser's localStorage.                     *)
(*                                                                         *)
(* The store is the set of localStorage items whose key carries the cache  *)
(* prefix 'cosmos_connect_'; a stored item is the JSON text of a cache     *)
(* entry.  Byte counts are scaled: the JSON text of an entry is its data's *)
(* JSON text plus EntryOverhead bytes of wrapper, plus AccessOverhead once *)
(* get() has added the lastAccessed field.  maxCacheSize and the default   *)
(* ttl are scaled the same way.  The browser's quota (StorageQuota) is     *)
(* above the byte budget: with a quota at or below the budget no write     *)
(* could ever push the total over the budget and the eviction code would   *)
(* be dead.                                                                *)
(*                                                                         *)
(* available tells whether localStorage can be accessed at all (when it    *)
(* is blocked every access raises).  requests is the timestamp array a     *)
(* RateLimiter (src/unnamed/part_001) holds in memory and persisted the    *)
(* array stored under 'rate_limiter_requests'.                             *)
(*                                                                         *)
(* The API service layer (BaseAPIService, src/unnamed/part_001): peer is   *)
(* the array of a second RateLimiter over the same stored key (another     *)
(* service of the page, or a service of another tab), inflight the         *)
(* makeRequest calls suspended at await fetch(url), fetches the log of the *)
(* network requests issued, and apiCache the 'cache_<key>' items of        *)
(* CacheUtils (src/scripts/build.js).                                      *)
(*                                                                         *)
(* OfflineManager (src/js/caching.js): pending is the data of the          *)
(* 'pending_changes' cache entry, syncs the syncPendingChanges runs        *)
(* suspended at an await, processed the log of the changes handed to       *)
(* processPendingChange, and added the number of addPendingChange calls    *)
(* so far (the changes are numbered in the order they were added).         *)
(***************************************************************************)
EXTENDS Integers, Sequences, FiniteSets, TLC

VARIABLES store, now, last, available, requests, persisted,
          peer, inflight, fetches, apiCache,
          pending, syncs, processed, added

serviceVars == <<peer, inflight, fetches, apiCache>>
offlineVars == <<pending, syncs, processed, added>>

vars ==
    <<store, now, last, available, requests, persisted, serviceVars,
      offlineVars>>

(***************************************************************************)
(* Bounds of the model.                                                    *)
(***************************************************************************)
\* Date.now() ranges over 1..MaxTime (it is never 0, which JS treats as falsy).
MaxTime == 3
\* Bytes localStorage accepts before setItem throws QuotaExceededError.
StorageQuota == 12
\* Bytes of an entry's JSON text besides its data.
EntryOverhead == 1
\* Bytes the lastAccessed field adds to an entry's JSON text.
AccessOverhead == 1

\* makeRequest calls suspended at their fetch at one time, and network
\* requests logged, at most.
MaxInFlight == 2
MaxFetches == 4

\* Changes added to the pending list, and syncPendingChanges runs suspended
\* at one time, at most.
MaxChanges == 3
MaxSyncs == 2

\* Timestamps a RateLimiter's array holds at most (recordRequest beyond it is
\* not explored).
MaxRecorded == 3

(***************************************************************************)
(* Program constants (scaled).                                             *)
(***************************************************************************)
maxCacheSize == 10
DefaultTtl == 1
DefaultPriority == 10
LowPriorityBelow == 50
\* RATE_LIMIT: requests per window, and the window.
maxRequests == 2
windowMs == 2
\* cacheDuration * 60 * 1000, the age up to which a CacheUtils item is fresh.
maxAge == 1

\* The key-pattern table, in the order Object.entries() walks it.
cachePriorities ==
    << <<"user_preferences", 100>>, <<"favorites", 90>>,
       <<"recent_searches", 80>>, <<"apod_data", 70>>,
       <<"mars_weather", 60>>, <<"asteroids", 50>>,
       <<"space_weather", 40>>, <<"rover_photos", 30>>,
       <<"exoplanets", 20>> >>

(***************************************************************************)
(* Inputs.                                                                 *)
(***************************************************************************)
Keys == {"favorites_a", "exoplanets_a", "exoplanets_b"}

\* key.includes(pattern), for the keys of the model.
Includes(key, pattern) ==
    \/ key = "favorites_a" /\ pattern = "favorites"
    \/ key \in {"exoplanets_a", "exoplanets_b"} /\ pattern = "exoplanets"

\* JavaScript values handed to set() as data.
JsStr(v) == [t |-> "string", v |-> v]
JsNaN == [t |-> "number", v |-> "NaN"]
JsNull == [t |-> "null", v |-> "null"]
JsCyclic == [t |-> "cyclic", v |-> ""]

\* In an options object 0 and "" stand for an absent (falsy) field.
Options(ttls, priorities, versions) ==
    [ttl : ttls, expires : {0}, priority : priorities, version : versions]

(***************************************************************************)
(* JSON and sizes.                                                         *)
(***************************************************************************)
\* JSON.stringify(data) throws a TypeError on a cyclic structure.
StringifyThrows(d) == d.t = "cyclic"

\* JSON.parse(JSON.stringify(data)): NaN is written as null.
JsonRoundTrip(d) == IF d.t = "number" /\ d.v = "NaN" THEN JsNull ELSE d

\* Byte length of JSON.stringify(data): a quoted string, or the text null.
JsonBytes(d) == IF d.t = "string" THEN Len(d.v) + 2 ELSE 4

\* An item whose text JSON.parse rejects (or parses to a value without the
\* fields of an entry, so that reading one throws): only its data marks it,
\* the other fields of such a record are never read.
Unparseable == [t |-> "corrupt", v |-> ""]
Parses(value) == value.data # Unparseable

\* a || b on numbers, and on strings.
OrNum(a, b) == IF a = 0 THEN b ELSE a
OrStr(a, b) == IF a = "" THEN b ELSE a

(***************************************************************************)
(* localStorage.  A store is a function from the cache keys present to the *)
(* entries their JSON texts hold.                                          *)
(***************************************************************************)
\* JSON.stringify(cacheEntry) followed by JSON.parse: what a reader gets back.
Stringify(entry) == [entry EXCEPT !.data = JsonRoundTrip(entry.data)]

\* new Blob([value]).size of an item's JSON text.
ByteSize(value) ==
    JsonBytes(value.data) + EntryOverhead
        + (IF value.lastAccessed # 0 THEN AccessOverhead ELSE 0)

RECURSIVE SumBytes(_, _)
SumBytes(s, keys) ==
    IF keys = {} THEN 0
    ELSE LET k == CHOOSE x \in keys : TRUE
         IN ByteSize(s[k]) + SumBytes(s, keys \ {k})

\* Bytes held by the items of a store.
TotalBytes(s) == SumBytes(s, DOMAIN s)

Without(s, keys) == [k \in DOMAIN s \ keys |-> s[k]]

WithItem(s, key, value) ==
    [k \in DOMAIN s \cup {key} |-> IF k = key THEN value ELSE s[k]]

\* localStorage.setItem(key, value) succeeds (it throws QuotaExceededError
\* when the items would no longer fit the quota).  The quota is counted over
\* the values of the cache items, the only items these operations write.
SetItemFits(s, key, value) ==
    TotalBytes(Without(s, {key})) + ByteSize(value) <= StorageQuota

\* delete taking an absent key for a request to empty the store.
deleteOrEmpty(s, key) == IF key \in DOMAIN s THEN Without(s, {key}) ELSE <<>>

\* localStorage.removeItem(prefix + key)
delete(s, key) == Without(s, {key})

(***************************************************************************)
(* AdvancedCacheManager.                                                   *)
(***************************************************************************)
RECURSIVE PriorityFrom(_, _)
PriorityFrom(key, i) ==
    IF i > Len(cachePriorities) THEN DefaultPriority
    ELSE IF Includes(key, cachePriorities[i][1]) THEN cachePriorities[i][2]
    ELSE PriorityFrom(key, i + 1)

getCachePriority(key) == PriorityFrom(key, 1)

calculateSize(data) == JsonBytes(data)

\* The cacheEntry object set() builds (tags and metadata are left at their
\* defaults and carry no behaviour).
NewEntry(key, data, options, t) ==
    [data |-> data,
     timestamp |-> t,
     expires |-> OrNum(options.expires, t + OrNum(options.ttl, DefaultTtl)),
     priority |-> OrNum(options.priority, getCachePriority(key)),
     size |-> calculateSize(data),
     version |-> OrStr(options.version, "1.0"),
     lastAccessed |-> 0]

\* One row of getStorageInfo().items.
Item(s, key) ==
    [key |-> key,
     size |-> ByteSize(s[key]),
     expires |-> s[key].expires,
     priority |-> s[key].priority,
     lastAccessed |-> OrNum(s[key].lastAccessed, s[key].timestamp)]

getStorageInfo(s) ==
    [totalSize |-> TotalBytes(s),
     itemCount |-> Cardinality(DOMAIN s),
     items |-> {Item(s, k) : k \in DOMAIN s},
     maxSize |-> maxCacheSize]

\* RemovalBefore with the access times compared the wrong way round.
RemovalBeforeNewestFirst(a, b) ==
    \/ a.priority < b.priority
    \/ a.priority = b.priority /\ a.lastAccessed > b.lastAccessed

\* RemovalBefore without the comparison of the priorities.
RemovalBeforeLruOnly(a, b) == a.lastAccessed < b.lastAccessed

\* The comparator of enforceStorageLimit's sort is negative: a goes first.
RemovalBefore(a, b) ==
    \/ a.priority < b.priority
    \/ a.priority = b.priority /\ a.lastAccessed < b.lastAccessed

\* The orders the (stable) sort can leave the items in: entries the
\* comparator ties keep the order localStorage.key(i) listed them in, which
\* the browser chooses.
RemovalOrders(s) ==
    LET n == Cardinality(DOMAIN s)
    IN {order \in [1..n -> DOMAIN s] :
          /\ \A i, j \in 1..n : i # j => order[i] # order[j]
          /\ \A i, j \in 1..n :
                i < j => ~RemovalBefore(Item(s, order[j]), Item(s, order[i]))}

\* freedSize >= totalSize - maxCacheSize * 0.8
TargetReached(freed, total) == 5 * freed >= 5 * total - 4 * maxCacheSize

\* The removal loop: items i.. of the order are still to visit.
RECURSIVE RemoveLoop(_, _, _, _, _)
RemoveLoop(s, order, i, freed, total) ==
    IF i > Len(order) \/ TargetReached(freed, total) THEN s
    ELSE RemoveLoop(delete(s, order[i]), order, i + 1,
                    freed + Item(s, order[i]).size, total)

\* enforceStorageLimit without its early return.
enforceStorageLimitAlways(s, order) ==
    RemoveLoop(s, order, 1, 0, getStorageInfo(s).totalSize)

enforceStorageLimit(s, order) ==
    LET storageInfo == getStorageInfo(s)
    IN IF storageInfo.totalSize <= maxCacheSize THEN s
       ELSE RemoveLoop(s, order, 1, 0, storageInfo.totalSize)

\* clearLowPriorityCache with the filter's comparison turned round.
clearHighPriorityCache(s) ==
    Without(s, {k \in DOMAIN s : Item(s, k).priority > LowPriorityBelow})

clearLowPriorityCache(s) ==
    Without(s, {k \in DOMAIN s : Item(s, k).priority < LowPriorityBelow})

\* IsExpired one tick late.
IsExpiredLate(entry, t) == t > entry.expires + 1

\* Date.now() > cacheEntry.expires
IsExpired(entry, t) == t > entry.expires

\* VersionMismatch with === for !==.
VersionMismatchInverted(entry, options) ==
    options.version # "" /\ entry.version = options.version

\* options.version && cacheEntry.version !== options.version
VersionMismatch(entry, options) ==
    options.version # "" /\ entry.version # options.version

\* The access update renewing the entry's timestamp as well.
AccessedRestamped(cacheEntry, t) ==
    [cacheEntry EXCEPT !.lastAccessed = t, !.timestamp = t]

\* cacheEntry.lastAccessed = Date.now()
Accessed(cacheEntry, t) == [cacheEntry EXCEPT !.lastAccessed = t]

(***************************************************************************)
(* The call that has just returned, if any, and what the caller saw.  ret  *)
(* is "true", "false", "data", "null", "void" or "threw"; version is the   *)
(* version get() was asked for; read holds the entry get() parsed from the *)
(* store and data the value it returned; written holds the entry set()     *)
(* built; path is "normal" or "retry"; evicted holds the items            *)
(* enforceStorageLimit (or delete) removed; num is the number a call       *)
(* returned; options holds the options set() was given; info holds the     *)
(* object getStorageInfo() returned.                                       *)
(***************************************************************************)
Call(op, key, ret) ==
    [op |-> op, key |-> key, ret |-> ret, version |-> "", read |-> {},
     data |-> {}, written |-> {}, path |-> "", evicted |-> {}, num |-> 0,
     options |-> {}, info |-> {}]

NoCall == Call("", "", "")

\* No service has issued a request and no change is waiting for a sync.
NoService ==
    /\ peer = <<>>
    /\ inflight = <<>>
    /\ fetches = <<>>
    /\ apiCache = <<>>
    /\ pending = <<>>
    /\ syncs = <<>>
    /\ processed = <<>>
    /\ added = 0

Init ==
    /\ store = <<>>
    /\ now = 1
    /\ last = NoCall
    /\ available = TRUE
    /\ requests = <<>>
    /\ persisted = <<>>
    /\ NoService

\* set(key, data, options)
Set(key, data, options) ==
    /\ UNCHANGED <<now, available, requests, persisted, serviceVars, offlineVars>>
    /\ IF StringifyThrows(data) \/ ~available
       THEN /\ store' = store
            /\ last' = Call("set", key, "threw")
       ELSE LET cacheEntry == NewEntry(key, data, options, now)
                value == Stringify(cacheEntry)
                written == WithItem(store, key, value)
                swept == clearLowPriorityCache(store)
            IN IF SetItemFits(store, key, value)
               THEN \E order \in RemovalOrders(written) :
                      /\ store' = enforceStorageLimit(written, order)
                      /\ last' = [Call("set", key, "true") EXCEPT
                                    !.written = {cacheEntry},
                                    !.options = {options},
                                    !.path = "normal",
                                    !.evicted =
                                        {Item(written, k) :
                                           k \in DOMAIN written \ DOMAIN store'}]
               ELSE IF SetItemFits(swept, key, value)
               THEN /\ store' = WithItem(swept, key, value)
                    /\ last' = [Call("set", key, "true") EXCEPT
                                  !.written = {cacheEntry},
                                  !.options = {options}, !.path = "retry"]
               ELSE /\ store' = swept
                    /\ last' = [Call("set", key, "false") EXCEPT
                                  !.written = {cacheEntry},
                                  !.options = {options}, !.path = "retry"]

\* get(key, options)
Get(key, options) ==
    /\ UNCHANGED <<now, available, requests, persisted, serviceVars, offlineVars>>
    /\ IF ~available
       THEN /\ store' = store
            /\ last' = [Call("get", key, "threw") EXCEPT
                          !.version = options.version]
       ELSE IF key \notin DOMAIN store
       THEN /\ store' = store
            /\ last' = [Call("get", key, "null") EXCEPT
                          !.version = options.version]
       ELSE IF ~Parses(store[key])
       THEN /\ store' = delete(store, key)
            /\ last' = [Call("get", key, "null") EXCEPT
                          !.version = options.version]
       ELSE LET cacheEntry == store[key]
                accessed == Accessed(cacheEntry, now)
            IN IF \/ IsExpired(cacheEntry, now)
                  \/ VersionMismatch(cacheEntry, options)
                  \/ ~SetItemFits(store, key, Stringify(accessed))
               THEN /\ store' = delete(store, key)
                    /\ last' = [Call("get", key, "null") EXCEPT
                                  !.version = options.version,
                                  !.read = {cacheEntry}]
               ELSE /\ store' = WithItem(store, key, Stringify(accessed))
                    /\ last' = [Call("get", key, "data") EXCEPT
                                  !.version = options.version,
                                  !.read = {cacheEntry},
                                  !.data = {cacheEntry.data}]

\* delete(key)
Delete(key) ==
    /\ UNCHANGED <<now, available, requests, persisted, serviceVars, offlineVars>>
    /\ IF ~available
       THEN /\ store' = store
            /\ last' = Call("delete", key, "threw")
       ELSE /\ store' = delete(store, key)
            /\ last' = [Call("delete", key, "void") EXCEPT
                          !.evicted = {Item(store, k) :
                                         k \in DOMAIN store \cap {key}}]

\* Time passes; the caller has moved on from the call that returned.
Tick ==
    /\ now < MaxTime
    /\ now' = now + 1
    /\ last' = NoCall
    /\ UNCHANGED <<store, available, requests, persisted, serviceVars, offlineVars>>

\* The calls a client makes, with inputs drawn from the given sets.
Calls(keys, datas, setOptions, getOptions) ==
    \/ \E key \in keys, data \in datas, options \in setOptions :
          Set(key, data, options)
    \/ \E key \in keys, options \in getOptions : Get(key, options)
    \/ \E key \in keys : Delete(key)
    \/ Tick

\* Writes of three keys with small and large values at two priorities, and
\* reads without a version: the byte budget and the quota are both reached.
Next ==
    Calls(Keys, {JsStr("a"), JsStr("abcd"), JsNaN, JsCyclic},
          Options({0}, {0, 90}, {""}), [version : {""}])

Spec == Init /\ [][Next]_vars

\* Writes of two keys with a ttl and a version, and reads that ask for a
\* version.
NextRead ==
    Calls({"favorites_a", "exoplanets_a"}, {JsStr("a"), JsNaN},
          Options({0, 2}, {0}, {"", "2.0"}), [version : {"", "2.0"}])

SpecRead == Init /\ [][NextRead]_vars

\* Writes of two keys with a small value and with one that alone exceeds
\* the byte budget (and fits the quota), and reads.
NextEvict ==
    Calls({"favorites_a", "exoplanets_a"}, {JsStr("a"), JsStr("abcdefgh")},
          Options({0}, {0}, {""}), [version : {""}])

SpecEvict == Init /\ [][NextEvict]_vars

(***************************************************************************)
(* The operations that walk localStorage by index.  The order in which     *)
(* localStorage.key(i) lists the items is the browser's choice; removing   *)
(* an item moves the items after it one index down.  Here a store may hold *)
(* records that do not parse: localStorage outlives the page and is shared *)
(* with every script of the origin.                                        *)
(***************************************************************************)
\* The orders localStorage.key(0), key(1), ... can list the cache keys in.
KeyOrders(s) ==
    LET n == Cardinality(DOMAIN s)
    IN {order \in [1..n -> DOMAIN s] :
          \A i, j \in 1..n : i # j => order[i] # order[j]}

RemoveAt(seq, i) ==
    [j \in 1..(Len(seq) - 1) |-> IF j < i THEN seq[j] ELSE seq[j + 1]]

\* Array.prototype.sort, which is stable: seq[i] goes before seq[j] when the
\* comparator says so, before[i][j], and elements it ties keep their order.
StableSort(seq, before) ==
    LET n == Len(seq)
        perm == CHOOSE p \in [1..n -> 1..n] :
                  /\ \A i, j \in 1..n : i # j => p[i] # p[j]
                  /\ \A i, j \in 1..n :
                        i < j => \/ before[p[i]][p[j]]
                                 \/ ~before[p[j]][p[i]] /\ p[i] < p[j]
    IN [i \in 1..n |-> seq[perm[i]]]

\* (a, b) => b.priority - a.priority is negative: a goes first.
PriorityDescending(a, b) == a.priority > b.priority

\* The loop of getStorageInfo(): index i of the keys still listed is next.
\* The catch removes the item while the index moves on.
RECURSIVE InfoLoop(_, _, _, _)
InfoLoop(s, order, i, info) ==
    IF i > Len(order) THEN [info EXCEPT !.store = s]
    ELSE IF Parses(s[order[i]])
    THEN InfoLoop(s, order, i + 1,
                  [info EXCEPT
                     !.totalSize = @ + ByteSize(s[order[i]]),
                     !.itemCount = @ + 1,
                     !.items = Append(@, Item(s, order[i]))])
    ELSE InfoLoop(delete(s, order[i]), RemoveAt(order, i), i + 1, info)

\* getStorageInfo() over a store that may hold corrupt records: the object
\* it returns (utilizationPercent, a quotient of totalSize and maxSize, is
\* left out) and, as store, the items it leaves.
getStorageInfoScan(s, order) ==
    LET info == InfoLoop(s, order, 1,
                         [store |-> s, totalSize |-> 0, itemCount |-> 0,
                          items |-> <<>>, maxSize |-> maxCacheSize])
    IN [info EXCEPT
          !.items = StableSort(@, [i \in DOMAIN @ |-> [j \in DOMAIN @ |->
                                     PriorityDescending(@[i], @[j])]])]

\* cleanupExpiredCache keeping the expired entries and dropping the others.
cleanupUnexpiredCache(s, t) ==
    Without(s, {k \in DOMAIN s : ~Parses(s[k]) \/ ~IsExpired(s[k], t)})

\* cleanupExpiredCache(): the keys are collected first and removed after
\* the loop.
cleanupExpiredCache(s, t) ==
    Without(s, {k \in DOMAIN s : ~Parses(s[k]) \/ IsExpired(s[k], t)})

\* enforceStorageLimit() over what getStorageInfo() saw and left.
enforceStorageLimitScan(s, order) ==
    LET storageInfo == getStorageInfoScan(s, order)
        items == storageInfo.items
        itemsForRemoval ==
            StableSort(items, [i \in DOMAIN items |-> [j \in DOMAIN items |->
                                 RemovalBefore(items[i], items[j])]])
    IN IF storageInfo.totalSize <= maxCacheSize THEN storageInfo.store
       ELSE RemoveLoop(storageInfo.store,
                       [i \in DOMAIN itemsForRemoval |-> itemsForRemoval[i].key],
                       1, 0, storageInfo.totalSize)

\* (cachePrefix + key).includes(pattern), for the patterns of the model.
PrefixedIncludes(key, pattern) ==
    \/ pattern \in {"cosmos", "connect"}
    \/ Includes(key, pattern)

\* The keys clearCache(pattern) collects; "" stands for no pattern.
keysToDelete(s, pattern) ==
    {k \in DOMAIN s : pattern = "" \/ PrefixedIncludes(k, pattern)}

\* new AdvancedCacheManager(): init() runs cleanupExpiredCache(),
\* enforceStorageLimit() and setupStorageListener().
NewCacheManager ==
    /\ UNCHANGED <<now, available, requests, persisted, serviceVars, offlineVars>>
    /\ IF ~available
       THEN /\ store' = store
            /\ last' = Call("AdvancedCacheManager", "", "threw")
       ELSE LET cleaned == cleanupExpiredCache(store, now)
            IN \E order \in KeyOrders(cleaned) :
                  /\ store' = enforceStorageLimitScan(cleaned, order)
                  /\ last' = [Call("AdvancedCacheManager", "", "void") EXCEPT
                                !.evicted = {Item(cleaned, k) :
                                               k \in DOMAIN cleaned \ DOMAIN store'}]

\* getStorageInfo()
GetStorageInfo ==
    /\ UNCHANGED <<now, available, requests, persisted, serviceVars, offlineVars>>
    /\ IF ~available
       THEN /\ store' = store
            /\ last' = Call("getStorageInfo", "", "threw")
       ELSE \E order \in KeyOrders(store) :
              LET info == getStorageInfoScan(store, order)
              IN /\ store' = info.store
                 /\ last' = [Call("getStorageInfo", "", "info") EXCEPT
                               !.info = {[totalSize |-> info.totalSize,
                                          itemCount |-> info.itemCount,
                                          items |-> info.items,
                                          maxSize |-> info.maxSize]}]

\* cleanupExpiredCache()
CleanupExpiredCache ==
    /\ UNCHANGED <<now, available, requests, persisted, serviceVars, offlineVars>>
    /\ IF ~available
       THEN /\ store' = store
            /\ last' = Call("cleanupExpiredCache", "", "threw")
       ELSE /\ store' = cleanupExpiredCache(store, now)
            /\ last' = Call("cleanupExpiredCache", "", "void")

\* clearCache(pattern); the call's key is the pattern.
ClearCache(pattern) ==
    /\ UNCHANGED <<now, available, requests, persisted, serviceVars, offlineVars>>
    /\ IF ~available
       THEN /\ store' = store
            /\ last' = Call("clearCache", pattern, "threw")
       ELSE /\ store' = Without(store, keysToDelete(store, pattern))
            /\ last' = [Call("clearCache", pattern, "number") EXCEPT
                          !.num = Cardinality(keysToDelete(store, pattern))]

\* The patterns handed to clearCache: none, two that key names contain and
\* one that only the prefix contains.
Patterns == {"", "favorites", "exoplanets", "connect"}

ScanCalls ==
    \/ NewCacheManager
    \/ GetStorageInfo
    \/ CleanupExpiredCache
    \/ \E pattern \in Patterns : ClearCache(pattern)

\* What an earlier page may have left under a cache key at time 1: an entry
\* set() wrote with the default or a longer ttl, or a record that does not
\* parse.
PersistedValues(key) ==
    LET written == {Stringify(NewEntry(key, JsStr("a"), options, 1)) :
                      options \in Options({0, 2}, {0}, {""})}
    IN written \cup {[value EXCEPT !.data = Unparseable] : value \in written}

\* The stores a page can find: any of the keys, within the quota.
PersistedStores ==
    UNION {{s \in [keys -> UNION {PersistedValues(k) : k \in keys}] :
              /\ \A k \in keys : s[k] \in PersistedValues(k)
              /\ TotalBytes(s) <= StorageQuota} : keys \in SUBSET Keys}

InitScan ==
    /\ store \in PersistedStores
    /\ now = 1
    /\ last = NoCall
    /\ available = TRUE
    /\ requests = <<>>
    /\ persisted = <<>>
    /\ NoService

\* A page working on a store it found: scans, clears and reads.
NextScan ==
    \/ ScanCalls
    \/ \E key \in Keys : Get(key, [version |-> ""])
    \/ Tick

SpecScan == InitScan /\ [][NextScan]_vars

(***************************************************************************)
(* StorageUtils (src/scripts/build.js) and RateLimiter                     *)
(* (src/unnamed/part_001).  StorageUtils catches what localStorage raises. *)
(***************************************************************************)
\* StorageUtils.get('rate_limiter_requests', [])
StorageGet == IF available THEN persisted ELSE <<>>

\* StorageUtils.set adding the value to what the key holds.
StorageSetAppending(value) ==
    IF available THEN persisted \o value ELSE persisted

\* What 'rate_limiter_requests' holds after StorageUtils.set(key, value).
StorageSet(value) == IF available THEN value ELSE persisted

\* cleanOldRequests keeping the timestamp that is exactly windowMs old.
cleanOldRequestsInclusive(reqs, t) ==
    SelectSeq(reqs, LAMBDA timestamp : t - timestamp <= windowMs)

\* requests.filter(timestamp => now - timestamp < windowMs)
cleanOldRequests(reqs, t) ==
    SelectSeq(reqs, LAMBDA timestamp : t - timestamp < windowMs)

\* Math.min(...requests) and Math.max(a, b)
MinOf(reqs) ==
    CHOOSE m \in {reqs[i] : i \in DOMAIN reqs} :
       \A i \in DOMAIN reqs : m <= reqs[i]

\* Math.max(0, b) without its floor: b as it is.
MaxNumUnfloored(a, b) == b

MaxNum(a, b) == IF a >= b THEN a ELSE b

\* new RateLimiter(config): a page load
NewRateLimiter ==
    /\ requests' = cleanOldRequests(StorageGet, now)
    /\ persisted' = StorageSet(requests')
    /\ last' = Call("RateLimiter", "", "void")
    /\ UNCHANGED <<store, now, available, serviceVars, offlineVars>>

\* canMakeRequest()
CanMakeRequest ==
    /\ requests' = cleanOldRequests(requests, now)
    /\ persisted' = StorageSet(requests')
    /\ last' = Call("canMakeRequest", "",
                    IF Len(requests') < maxRequests THEN "true" ELSE "false")
    /\ UNCHANGED <<store, now, available, serviceVars, offlineVars>>

\* recordRequest()
RecordRequest ==
    /\ Len(requests) < MaxRecorded
    /\ requests' = Append(requests, now)
    /\ persisted' = StorageSet(requests')
    /\ last' = Call("recordRequest", "", "void")
    /\ UNCHANGED <<store, now, available, serviceVars, offlineVars>>

\* getTimeUntilReset()
GetTimeUntilReset ==
    /\ last' = [Call("getTimeUntilReset", "", "number") EXCEPT
                  !.num = IF Len(requests) = 0 THEN 0
                          ELSE MaxNum(0, windowMs - (now - MinOf(requests)))]
    /\ UNCHANGED <<store, now, available, requests, persisted, serviceVars, offlineVars>>

\* getRemainingRequests()
GetRemainingRequests ==
    /\ requests' = cleanOldRequests(requests, now)
    /\ persisted' = StorageSet(requests')
    /\ last' = [Call("getRemainingRequests", "", "number") EXCEPT
                  !.num = MaxNum(0, maxRequests - Len(requests'))]
    /\ UNCHANGED <<store, now, available, serviceVars, offlineVars>>

LimiterCalls ==
    \/ NewRateLimiter
    \/ CanMakeRequest
    \/ RecordRequest
    \/ GetTimeUntilReset
    \/ GetRemainingRequests

\* One RateLimiter over working storage.
NextLimiter == LimiterCalls \/ Tick

SpecLimiter == Init /\ [][NextLimiter]_vars

(***************************************************************************)
(* CacheUtils (src/scripts/build.js) and BaseAPIService                    *)
(* (src/unnamed/part_001).  Service 1 owns the limiter array requests,     *)
(* service 2 the array peer; both limiters store under the one key         *)
(* 'rate_limiter_requests'.  The documents the API returns are JSON        *)
(* objects, which JavaScript takes for true; "" stands for no cacheKey.    *)
(***************************************************************************)
ApiData == [t |-> "object", v |-> "apod"]

\* CacheUtils.isExpired(cacheItem, maxAgeMinutes)
isExpired(cacheItem, t) == t - cacheItem.timestamp > maxAge

\* CacheUtils.isExpired taking every item for fresh.
getStaleData(cacheKey, t) ==
    IF available /\ cacheKey \in DOMAIN apiCache
    THEN {apiCache[cacheKey].data} ELSE {}

\* CacheUtils.getCachedData(key, maxAgeMinutes): the data, or nothing (null).
getCachedData(cacheKey, t) ==
    IF available /\ cacheKey \in DOMAIN apiCache
                 /\ ~isExpired(apiCache[cacheKey], t)
    THEN {apiCache[cacheKey].data} ELSE {}

\* CacheUtils.setCachedData(key, data): the items afterwards.
setCachedData(cacheKey, data, t) ==
    IF available
    THEN [k \in DOMAIN apiCache \cup {cacheKey} |->
            IF k = cacheKey THEN [data |-> data, timestamp |-> t]
            ELSE apiCache[k]]
    ELSE apiCache

\* The limiter array of a service, and its assignment.
Requests(svc) == IF svc = 1 THEN requests ELSE peer
SetRequests(svc, value) ==
    IF svc = 1 THEN requests' = value /\ peer' = peer
    ELSE peer' = value /\ requests' = requests

\* canMakeRequest() answering true whatever the array holds.
PermitsAlways(reqs) == TRUE

\* canMakeRequest() letting a request through with the quota just used up.
PermitsOneMore(reqs) == Len(reqs) <= maxRequests

\* this.requests.length < this.maxRequests
Permits(reqs) == Len(reqs) < maxRequests

\* new BaseAPIService(apiKey) of the second service: its RateLimiter loads
\* the stored array.
NewPeerService ==
    /\ peer' = cleanOldRequests(StorageGet, now)
    /\ persisted' = StorageSet(peer')
    /\ last' = Call("BaseAPIService", "", "void")
    /\ UNCHANGED <<store, now, available, requests, inflight, fetches,
                   apiCache, offlineVars>>

\* makeRequest(endpoint, params, cacheKey) up to its first await: the cache
\* is asked, then the limiter; a permitted request is recorded and fetched.
MakeRequest(svc, cacheKey) ==
    LET cachedData == IF cacheKey = "" THEN {} ELSE getCachedData(cacheKey, now)
        cleaned == cleanOldRequests(Requests(svc), now)
        recorded == Append(cleaned, now)
    IN /\ UNCHANGED <<store, now, available, apiCache, offlineVars>>
       /\ IF cachedData # {}
          THEN /\ last' = [Call("makeRequest", cacheKey, "data") EXCEPT
                             !.data = cachedData, !.path = "hit", !.num = svc]
               /\ UNCHANGED <<requests, peer, persisted, inflight, fetches>>
          ELSE IF ~Permits(cleaned)
          THEN /\ SetRequests(svc, cleaned)
               /\ persisted' = StorageSet(cleaned)
               /\ last' = [Call("makeRequest", cacheKey, "APIError 429") EXCEPT
                             !.path = "limited", !.num = svc]
               /\ UNCHANGED <<inflight, fetches>>
          ELSE /\ Len(inflight) < MaxInFlight
               /\ Len(fetches) < MaxFetches
               /\ SetRequests(svc, recorded)
               /\ persisted' = StorageSet(recorded)
               /\ fetches' = Append(fetches, [svc |-> svc, t |-> now])
               /\ inflight' = Append(inflight, [svc |-> svc, cacheKey |-> cacheKey])
               /\ last' = [Call("makeRequest", cacheKey, "pending") EXCEPT
                             !.path = "fetch", !.num = svc]

\* The fetch of the n-th suspended call answers with an ok response and a
\* JSON body: the call caches the data and returns it.
FetchOk(n) ==
    /\ n \in DOMAIN inflight
    /\ inflight' = RemoveAt(inflight, n)
    /\ apiCache' = IF inflight[n].cacheKey = "" THEN apiCache
                   ELSE setCachedData(inflight[n].cacheKey, ApiData, now)
    /\ last' = [Call("makeRequest", inflight[n].cacheKey, "data") EXCEPT
                  !.data = {ApiData}, !.path = "fetched", !.num = inflight[n].svc]
    /\ UNCHANGED <<store, now, available, requests, peer, persisted, fetches,
                   offlineVars>>

\* The fetch of the n-th suspended call fails, or answers with a response
\* that is not ok: the call throws an APIError.
FetchFails(n) ==
    /\ n \in DOMAIN inflight
    /\ inflight' = RemoveAt(inflight, n)
    /\ last' = [Call("makeRequest", inflight[n].cacheKey, "APIError") EXCEPT
                  !.path = "failed", !.num = inflight[n].svc]
    /\ UNCHANGED <<store, now, available, requests, peer, persisted, fetches,
                   apiCache, offlineVars>>

CacheKeys == {"", "apod_today"}

\* One service whose calls overlap.
NextService ==
    \/ \E cacheKey \in CacheKeys : MakeRequest(1, cacheKey)
    \/ \E n \in 1..MaxInFlight : FetchOk(n)
    \/ \E n \in 1..MaxInFlight : FetchFails(n)
    \/ Tick

SpecService == Init /\ [][NextService]_vars

\* Two services over the one stored array, in one page or in two tabs,
\* with reloads of either.
NextShared ==
    \/ \E svc \in {1, 2} : MakeRequest(svc, "")
    \/ \E n \in 1..MaxInFlight : FetchOk(n)
    \/ \E n \in 1..MaxInFlight : FetchFails(n)
    \/ NewRateLimiter
    \/ NewPeerService
    \/ Tick

SpecShared == Init /\ [][NextShared]_vars

(***************************************************************************)
(* OfflineManager (src/js/caching.js).  The 'pending_changes' entry is     *)
(* small, of priority 90 and a ttl of 30 days: the cache has room for it   *)
(* and keeps it, so its data is all that is followed here; an absent       *)
(* entry reads as the empty list (get(...) || []).                         *)
(***************************************************************************)
\* addPendingChange(change)
AddPendingChange ==
    /\ added < MaxChanges
    /\ added' = added + 1
    /\ pending' = Append(pending, added')
    /\ last' = Call("addPendingChange", "", "void")
    /\ UNCHANGED <<store, now, available, requests, persisted, serviceVars,
                   syncs, processed>>

\* An 'online' event: handleOnline() calls syncPendingChanges(), which
\* reads the list, returns if it is empty, and otherwise hands the first
\* change to processPendingChange and is suspended at that await.
HandleOnline ==
    /\ Len(syncs) < MaxSyncs
    /\ IF Len(pending) = 0
       THEN UNCHANGED <<syncs, processed>>
       ELSE /\ processed' = Append(processed, pending[1])
            /\ syncs' = Append(syncs, [pending |-> pending, change |-> 1])
    /\ last' = Call("handleOnline", "", "void")
    /\ UNCHANGED <<store, now, available, requests, persisted, serviceVars,
                   pending, added>>

\* The n-th suspended syncPendingChanges resumes: it hands the next change
\* of the list it read to processPendingChange, or, past the last one,
\* deletes the 'pending_changes' entry and returns.
SyncResumes(n) ==
    /\ n \in DOMAIN syncs
    /\ IF syncs[n].change < Len(syncs[n].pending)
       THEN /\ processed' =
                 Append(processed, syncs[n].pending[syncs[n].change + 1])
            /\ syncs' = [syncs EXCEPT ![n].change = @ + 1]
            /\ pending' = pending
       ELSE /\ pending' = <<>>
            /\ syncs' = RemoveAt(syncs, n)
            /\ processed' = processed
    /\ last' = Call("syncPendingChanges", "", "void")
    /\ UNCHANGED <<store, now, available, requests, persisted, serviceVars,
                   added>>

NextOffline ==
    \/ AddPendingChange
    \/ HandleOnline
    \/ \E n \in 1..MaxSyncs : SyncResumes(n)

SpecOffline == Init /\ [][NextOffline]_vars

\* Options with a ttl that is absent (or 0), negative or positive, and an
\* expires that is absent or the explicit instant 1.
TtlOptions == [ttl : {0, -1, 2}, expires : {0, 1}, priority : {0}, version : {""}]

\* Writes of two keys under those options, and reads.
NextTtl ==
    Calls({"favorites_a", "exoplanets_a"}, {JsStr("a")}, TtlOptions,
          [version : {""}])

SpecTtl == Init /\ [][NextTtl]_vars

(***************************************************************************)
(* A page whose localStorage is unavailable: every access to it raises.    *)
(***************************************************************************)
InitUnavailable ==
    /\ store = <<>>
    /\ now = 1
    /\ last = NoCall
    /\ available = FALSE
    /\ requests = <<>>
    /\ persisted = <<>>
    /\ NoService

NextUnavailable ==
    \/ Calls({"favorites_a", "exoplanets_a"}, {JsStr("a")},
             Options({0}, {0}, {""}), [version : {""}])
    \/ ScanCalls
    \/ LimiterCalls

SpecUnavailable == InitUnavailable /\ [][NextUnavailable]_vars

(***************************************************************************)
(* Properties.                                                             *)
(***************************************************************************)
\* The step is a call of the named operation (calls leave the clock alone).
SetStep == now' = now /\ last'.op = "set" /\ last'.ret # "threw"
GetStep == now' = now /\ last'.op = "get"

\* C1: after any set() completes, returning true or false, on the normal
\* path or on the sweep-and-retry path, the bytes of the cache entries in
\* the store are at most maxCacheSize.
C1_BudgetAfterSet ==
    last.op = "set" /\ last.ret \in {"true", "false"}
        => TotalBytes(store) <= maxCacheSize

\* The store right after the setItem of the set() call of this step went
\* through: on the normal path the first one, on the retry path the second.
AfterWrite ==
    IF last'.path = "normal"
    THEN WithItem(store, last'.key, Stringify(CHOOSE e \in last'.written : TRUE))
    ELSE store'

\* C2: whenever the write of a set() leaves the total above the budget, the
\* total after that set() completes is at most 80% of the budget.
C2_EightyPercentAfterSet ==
    [][SetStep /\ last'.ret = "true" /\ TotalBytes(AfterWrite) > maxCacheSize
         => 5 * TotalBytes(store') <= 4 * maxCacheSize]_vars

\* The time an entry was last read, or written if it was never read.
LastAccess(e) == IF e.lastAccessed # 0 THEN e.lastAccessed ELSE e.timestamp

\* a comes before b in ascending (priority, last access) order.
RanksBelow(a, b) ==
    \/ a.priority < b.priority
    \/ a.priority = b.priority /\ LastAccess(a) < LastAccess(b)

\* The keys the eviction of this step's set() removed.
Removed == DOMAIN AfterWrite \ DOMAIN store'

\* The entry under key k was in the store before this step's write.
WasPresent(k) == k \in DOMAIN store /\ store[k] = AfterWrite[k]

\* C3 as stated: the entries eviction removes were all present before the
\* write, and no surviving entry that was present before the write ranks
\* strictly below a removed one.
C3_RemovedWerePresentBefore ==
    [][SetStep /\ last'.path = "normal" /\ Removed # {}
         => \A r \in Removed :
              /\ WasPresent(r)
              /\ \A k \in DOMAIN store' :
                    WasPresent(k) => ~RanksBelow(AfterWrite[k], AfterWrite[r])]_vars

\* C3 as amended: the entries eviction removes are the lowest in ascending
\* (priority, last access) order among the entries in the store after the
\* write, the entry just written included: no surviving entry ranks strictly
\* below a removed one, and the survivors are left as they were.
C3_RemovedAreLowest ==
    [][SetStep /\ last'.path = "normal" /\ Removed # {}
         => /\ \A r \in Removed : \A k \in DOMAIN store' :
                  ~RanksBelow(AfterWrite[k], AfterWrite[r])
            /\ \A k \in DOMAIN store' : store'[k] = AfterWrite[k]]_vars

\* An eviction has removed an entry that was there before the write and has
\* kept one of the same priority that was accessed later.
C3_Witness ==
    /\ last.op = "set"
    /\ \E r \in last.evicted : \E k \in DOMAIN store :
          /\ r.key # last.key
          /\ store[k].priority = r.priority
          /\ LastAccess(store[k]) > r.lastAccessed

\* C4: of two entries with different priorities present when eviction
\* runs, the one with the higher priority is never removed while the one
\* with the lower priority survives, whichever was accessed later.
C4_PriorityBeforeRecency ==
    [][SetStep /\ Removed # {}
         => \A r \in Removed : \A k \in DOMAIN store' :
              ~(AfterWrite[r].priority > AfterWrite[k].priority)]_vars

\* An eviction has removed an entry of lower priority that was accessed
\* later than a surviving entry of higher priority.
C4_Witness ==
    /\ last.op = "set"
    /\ \E r \in last.evicted : \E k \in DOMAIN store :
          /\ store[k].priority > r.priority
          /\ LastAccess(store[k]) < r.lastAccessed

\* C5: a get() of an entry whose expiry time has passed returns null and
\* removes the entry, which getStorageInfo() no longer lists; and the data
\* get() returns is that of an entry whose expiry time has not passed.
C5_ExpiredNeverReturned ==
    [][GetStep
         => LET key == last'.key
            IN /\ key \in DOMAIN store /\ now > store[key].expires
                    => /\ last'.ret = "null"
                       /\ key \notin DOMAIN store'
                       /\ \A i \in getStorageInfo(store').items : i.key # key
               /\ last'.ret = "data"
                    => /\ key \in DOMAIN store
                       /\ now <= store[key].expires
                       /\ last'.data = {store[key].data}]_vars

\* A get() has found an expired entry, removed it and returned null.
C5_Witness ==
    /\ last.op = "get" /\ last.ret = "null"
    /\ \E e \in last.read : now > e.expires
    /\ last.key \notin DOMAIN store

\* C6: a get() that asks for a version other than the one the entry was
\* stored with returns null and removes the entry; a get() that asks for no
\* version misses on an entry in the store only because the entry has
\* expired or could not be written back, never because of its version.
C6_VersionInvalidation ==
    [][GetStep /\ last'.key \in DOMAIN store
         => LET e == store[last'.key]
                v == last'.version
                grows == IF e.lastAccessed = 0 THEN AccessOverhead ELSE 0
            IN /\ v # "" /\ e.version # v
                    => last'.ret = "null" /\ last'.key \notin DOMAIN store'
               /\ v = "" /\ last'.ret = "null"
                    => \/ now > e.expires
                       \/ TotalBytes(store) + grows > StorageQuota]_vars

\* A get() has asked for another version than that of a fresh entry, and
\* the entry is gone.
C6_Witness ==
    /\ last.op = "get" /\ last.ret = "null" /\ last.version # ""
    /\ \E e \in last.read : e.version # last.version /\ now <= e.expires
    /\ last.key \notin DOMAIN store

\* JSON carries the value unchanged.
Serializable(d) == ~StringifyThrows(d) /\ JsonRoundTrip(d) = d

\* C7: when set(key, value) has returned true for a serializable value and
\* get(key) is the next call, made before the entry's expiry time, get
\* returns the value written.
C7_RoundTrip ==
    [][/\ last.op = "set" /\ last.ret = "true"
       /\ GetStep /\ last'.key = last.key /\ last'.version = ""
       /\ \A e \in last.written : Serializable(e.data) /\ now <= e.expires
         => /\ last'.ret = "data"
            /\ last'.data = {w.data : w \in last.written}]_vars

\* C8: get() returns null only if the key is absent, the entry has expired
\* or the version asked for differs; on a fresh entry of a compatible version
\* it returns the stored data and keeps the entry, also when the write-back
\* of the access time fails.
C8_MissOnlyIfAbsentExpiredOrMismatched ==
    [][GetStep /\ last'.key \in DOMAIN store
         => LET e == store[last'.key]
                v == last'.version
            IN now <= e.expires /\ (v = "" \/ e.version = v)
                 => /\ last'.ret = "data"
                    /\ last'.data = {e.data}
                    /\ last'.key \in DOMAIN store']_vars

\* What the sweep of a failed write leaves: the entries of priority 50 and
\* above.
Swept == [k \in {x \in DOMAIN store : store[x].priority >= LowPriorityBelow}
            |-> store[k]]

\* The bytes of this step's new entry fit the quota beside those of s.
NewEntryFits(s) ==
    \A e \in last'.written :
       TotalBytes(Without(s, {last'.key})) + ByteSize(Stringify(e))
          <= StorageQuota

\* C9: when the first write of set() fails, set() sweeps the low-priority
\* entries once and retries the write once; it returns true if the retry
\* succeeds, and false if it fails, and then the new value is not in the
\* store.
C9_SweepAndRetryOnce ==
    [][SetStep /\ ~NewEntryFits(store)
         => /\ last'.ret = "true" <=> NewEntryFits(Swept)
            /\ last'.ret = "true"
                 => store' = WithItem(Swept, last'.key,
                                      Stringify(CHOOSE e \in last'.written : TRUE))
            /\ last'.ret = "false"
                 => /\ store' = Swept
                    /\ \/ last'.key \notin DOMAIN store'
                       \/ store'[last'.key] = store[last'.key]]_vars

\* The first write of a set() failed, the sweep removed an entry, and the
\* retry went through.
C9_Witness ==
    /\ last.op = "set" /\ last.path = "retry" /\ last.ret = "true"
    /\ last.key \in DOMAIN store
    /\ \A e \in last.written : store[last.key] = Stringify(e)

\* C10: set() lets no exception escape to its caller: a failure to
\* serialize the value is reported as the result false.
C10_SetNeverThrows ==
    last.op = "set" => last.ret \in {"true", "false"}

\* The timestamps of reqs that are inside the window at time t.
InWindow(reqs, t) == {i \in DOMAIN reqs : t - reqs[i] < windowMs}

LimiterOps ==
    {"RateLimiter", "canMakeRequest", "recordRequest", "getTimeUntilReset",
     "getRemainingRequests"}

\* C18: canMakeRequest() returns true iff fewer than maxRequests recorded
\* timestamps are less than windowMs old; so with maxRequests requests
\* recorded at t it is false while now - t < windowMs and true afterwards.
C18_CanMakeRequestIffBelowQuota ==
    [][now' = now /\ last'.op = "canMakeRequest"
         => (last'.ret = "true"
               <=> Cardinality(InWindow(requests, now)) < maxRequests)]_vars

\* canMakeRequest() has answered false with the quota used up inside the
\* window.
C18_Witness ==
    /\ last.op = "canMakeRequest" /\ last.ret = "false"
    /\ Cardinality(InWindow(requests, now)) >= maxRequests

\* C19: whenever a limiter operation has read or changed the timestamp
\* sequence, the sequence holds only timestamps less than windowMs old.
C19_PrunedAtEveryOperation ==
    last.op \in LimiterOps => InWindow(requests, now) = DOMAIN requests

\* C20: getTimeUntilReset() discards the timestamps older than the window,
\* then returns 0 if none remains and otherwise windowMs less the age of
\* the oldest remaining one, floored at 0.
C20_TimeUntilResetAfterPruning ==
    last.op = "getTimeUntilReset"
      => LET fresh == {requests[i] : i \in InWindow(requests, now)}
         IN last.num =
              IF fresh = {} THEN 0
              ELSE LET oldest == CHOOSE m \in fresh : \A x \in fresh : m <= x
                   IN IF windowMs - (now - oldest) > 0
                      THEN windowMs - (now - oldest) ELSE 0

\* C13: delete(key) returns without throwing, removes the key's entry and
\* nothing else, so on an absent key it leaves the store as it was, and a
\* second delete(key) changes nothing more.
C13_DeleteIdempotent ==
    [][now' = now /\ last'.op = "delete"
         => /\ last'.ret = "void"
            /\ DOMAIN store' = DOMAIN store \ {last'.key}
            /\ \A k \in DOMAIN store' : store'[k] = store[k]
            /\ (last'.key \notin DOMAIN store => store' = store)]_vars

\* delete(key) has returned for a key that had no entry while other keys
\* had one.
C13_Witness ==
    /\ last.op = "delete" /\ last.ret = "void"
    /\ last.evicted = {}
    /\ store # <<>>

\* The records of a store that parse, and those that do not.
Live(s) == {k \in DOMAIN s : Parses(s[k])}
Corrupt(s) == DOMAIN s \ Live(s)

\* C12: get(key) on a record that does not parse returns null (it does not
\* throw) and removes the record, and once cleanupExpiredCache() or
\* getStorageInfo() has run no such record is left in the store.
C12_CorruptRecordsRemoved ==
    [][now' = now
         => /\ last'.op = "get" /\ last'.key \in Corrupt(store)
                => last'.ret = "null" /\ last'.key \notin DOMAIN store'
            /\ last'.op \in {"cleanupExpiredCache", "getStorageInfo"}
                => last'.ret # "threw" /\ Corrupt(store') = {}]_vars

\* C14: clearCache(pattern) removes exactly the entries whose key contains
\* the pattern (all of them without a pattern), leaves the other entries
\* and the limiter's item as they were, and returns the number removed.
C14_ClearCacheByCallerKey ==
    [][now' = now /\ last'.op = "clearCache"
         => LET matching == {k \in DOMAIN store :
                               last'.key = "" \/ Includes(k, last'.key)}
            IN /\ last'.ret = "number"
               /\ DOMAIN store' = DOMAIN store \ matching
               /\ \A k \in DOMAIN store' : store'[k] = store[k]
               /\ last'.num = Cardinality(matching)
               /\ persisted' = persisted]_vars

\* C15: the object getStorageInfo() returns counts the records of the store
\* that parse, sums their sizes, and lists each of them once, in descending
\* order of priority, whatever else the store holds.
C15_StorageInfoCountsLiveEntries ==
    [][now' = now /\ last'.op = "getStorageInfo"
         => \A info \in last'.info :
              /\ info.itemCount = Cardinality(Live(store))
              /\ info.totalSize = SumBytes(store, Live(store))
              /\ Len(info.items) = Cardinality(Live(store))
              /\ \A k \in Live(store) :
                    \E i \in DOMAIN info.items :
                       info.items[i] = Item(store, k)
              /\ \A i, j \in DOMAIN info.items :
                    i < j => info.items[i].priority >= info.items[j].priority]_vars

\* The entries of a store that parse and are not expired at time t.
Unexpired(s, t) == {k \in Live(s) : ~IsExpired(s[k], t)}

\* C16 as stated: after cleanupExpiredCache(), and after the construction
\* of an AdvancedCacheManager, no expired entry is in the store and every
\* entry that parses and is not expired is in it unchanged.
C16_ExpiredSweptUnexpiredKept ==
    [][now' = now /\ last'.op \in {"cleanupExpiredCache", "AdvancedCacheManager"}
         => /\ \A k \in DOMAIN store' : ~IsExpired(store'[k], now)
            /\ \A k \in Unexpired(store, now) :
                  k \in DOMAIN store' /\ store'[k] = store[k]]_vars

\* C16: after cleanupExpiredCache() the store holds exactly the entries
\* that parsed and were not expired, unchanged; after the construction of
\* an AdvancedCacheManager it holds no expired entry and only such entries,
\* unchanged, and all of them when their sizes are within the budget.
C16_ExpiredSweptUnexpiredKeptInBudget ==
    [][now' = now /\ last'.op \in {"cleanupExpiredCache", "AdvancedCacheManager"}
         => /\ \A k \in DOMAIN store' : ~IsExpired(store'[k], now)
            /\ DOMAIN store' \subseteq Unexpired(store, now)
            /\ \A k \in DOMAIN store' : store'[k] = store[k]
            /\ \/ DOMAIN store' = Unexpired(store, now)
               \/ /\ last'.op = "AdvancedCacheManager"
                  /\ SumBytes(store, Unexpired(store, now)) > maxCacheSize]_vars

\* A construction at the last instant has evicted an entry that its sweep
\* of the expired entries had kept, and has left another in the store.
C16_Witness ==
    /\ last.op = "AdvancedCacheManager" /\ last.ret = "void"
    /\ last.evicted # {}
    /\ now = MaxTime
    /\ store # <<>>

\* C11: while every access to localStorage raises, no operation of the
\* cache or of the limiter throws: each returns, and leaves the store alone.
C11_NoThrowWhenUnavailable ==
    ~available => last.ret # "threw" /\ store = <<>>

\* C17: the entry a set() builds has expires > timestamp whatever ttl and
\* expires its options hold, and expires = timestamp + ttl when the options
\* hold a ttl and no expires (a ttl of 0 is not told from an absent one
\* here, so the equation is asked of the other ttls only).
C17_ExpiresAfterTimestamp ==
    last.op = "set"
      => \A w \in last.written : \A o \in last.options :
            /\ w.expires > w.timestamp
            /\ (o.expires = 0 /\ o.ttl # 0 => w.expires = w.timestamp + o.ttl)

\* The free slots of the quota at time t: maxRequests less the timestamps of
\* reqs inside the window, and 0 when there are more.
Remaining(reqs, t) ==
    IF maxRequests > Cardinality(InWindow(reqs, t))
    THEN maxRequests - Cardinality(InWindow(reqs, t)) ELSE 0

\* C21: getRemainingRequests() returns the free slots of the quota, a number
\* from 0 to maxRequests; with every recorded timestamp inside the window a
\* recordRequest() takes exactly one slot while one is free, and none after.
C21_RemainingDecreasesByOne ==
    [][now' = now
         => /\ last'.op = "getRemainingRequests"
                => /\ last'.num = Remaining(requests, now)
                   /\ last'.num \in 0..maxRequests
            /\ last'.op = "recordRequest" /\ InWindow(requests, now) = DOMAIN requests
                => Remaining(requests', now) =
                     IF Remaining(requests, now) > 0
                     THEN Remaining(requests, now) - 1 ELSE 0]_vars

\* getRemainingRequests() has answered 0 with more than maxRequests
\* timestamps recorded inside the window.
C21_Witness ==
    /\ last.op = "getRemainingRequests" /\ last.num = 0
    /\ Cardinality(InWindow(requests, now)) > maxRequests

\* C22: whenever the quota is used up inside the window, so that
\* canMakeRequest() is false, getTimeUntilReset() returns a number above 0
\* and at most windowMs.
C22_PositiveResetWhenExhausted ==
    last.op = "getTimeUntilReset"
      /\ Cardinality(InWindow(requests, now)) >= maxRequests
      => last.num > 0 /\ last.num <= windowMs

\* A makeRequest call has just run up to its return, throw or fetch.
RequestStep ==
    /\ now' = now
    /\ last'.op = "makeRequest"
    /\ last'.path \in {"hit", "limited", "fetch"}

\* The item CacheUtils holds for the key is fresh.
Fresh(cacheKey) ==
    /\ cacheKey \in DOMAIN apiCache \ {""}
    /\ now - apiCache[cacheKey].timestamp <= maxAge

\* The fetches of the log issued in the window that ends at time t.
FetchesInWindow(t) == {i \in DOMAIN fetches : t - fetches[i].t \in 0..(windowMs - 1)}

\* C23: a makeRequest that reaches the limiter with the quota used up throws
\* APIError 429, issues no fetch and records nothing: the limiter's array is
\* the old one less its stale timestamps.
C23_RejectedWithoutFetch ==
    [][RequestStep /\ last'.path # "hit"
         /\ Cardinality(InWindow(requests, now)) >= maxRequests
         => /\ last'.ret = "APIError 429"
            /\ fetches' = fetches /\ inflight' = inflight
            /\ requests' = SelectSeq(requests, LAMBDA x : now - x < windowMs)
            /\ apiCache' = apiCache]_vars

\* A makeRequest has been rejected with the quota used up.
C23_Witness ==
    /\ last.op = "makeRequest" /\ last.ret = "APIError 429"
    /\ Cardinality(InWindow(requests, now)) >= maxRequests
    /\ fetches # <<>>

\* C24: the services of one API key share one quota: no window holds more
\* than maxRequests of their network requests, and the stored array holds
\* every request any of them issued inside the current window.
C24_QuotaPerCredentialClass ==
    /\ \A i \in DOMAIN fetches :
          Cardinality(FetchesInWindow(fetches[i].t)) <= maxRequests
    /\ \A i \in FetchesInWindow(now) :
          Cardinality({j \in FetchesInWindow(now) : fetches[j].t = fetches[i].t})
            <= Cardinality({j \in DOMAIN persisted : persisted[j] = fetches[i].t})

\* C25: a write of the stored array replaces it by the writer's own array
\* (last writer wins, nothing is merged), so a request another context
\* recorded can be lost.
C25_LastWriterWins ==
    [][persisted' = persisted \/ persisted' = requests' \/ persisted' = peer']_vars

\* Both contexts have written; the stored array lacks a request recorded
\* inside the window, and the contexts together have issued more than
\* maxRequests requests inside it.
C25_Witness ==
    /\ \E i \in FetchesInWindow(now) :
          \A j \in DOMAIN persisted : persisted[j] # fetches[i].t
    /\ Cardinality(FetchesInWindow(now)) > maxRequests
    /\ \E i, j \in FetchesInWindow(now) : fetches[i].svc # fetches[j].svc

\* C26: makeRequest asks the cache first and returns a fresh item without
\* touching the limiter or the network; otherwise it asks the limiter, and
\* a fetch it issues goes with the request recorded at that instant; the
\* cache is written only when a fetch has succeeded, and a failed fetch
\* leaves the cache alone and the request recorded.
C26_CacheThenLimiterThenFetch ==
    [][/\ RequestStep /\ Fresh(last'.key)
          => /\ last'.path = "hit"
             /\ last'.data = {apiCache[last'.key].data}
             /\ UNCHANGED <<requests, persisted, fetches, inflight, apiCache>>
       /\ RequestStep /\ ~Fresh(last'.key)
          => /\ last'.path # "hit"
             /\ apiCache' = apiCache
             /\ last'.path = "fetch"
                  <=> Cardinality(InWindow(requests, now)) < maxRequests
             /\ last'.path = "fetch"
                  => /\ fetches' = Append(fetches, [svc |-> 1, t |-> now])
                     /\ Len(requests') = Cardinality(InWindow(requests, now)) + 1
                     /\ requests'[Len(requests')] = now
                     /\ persisted' = requests'
       /\ apiCache' # apiCache
          => /\ last'.op = "makeRequest" /\ last'.path = "fetched"
             /\ last'.key # ""
             /\ apiCache'[last'.key] = [data |-> ApiData, timestamp |-> now]
       /\ last'.op = "makeRequest" /\ last'.path = "failed" /\ now' = now
          => UNCHANGED <<requests, persisted, fetches, apiCache>>]_vars

\* A fresh item has been returned after a fetch had cached it.
C26_Witness ==
    /\ last.op = "makeRequest" /\ last.path = "hit"
    /\ last.data = {ApiData}
    /\ fetches # <<>>

\* C29: with calls of one service overlapping, no window holds more than
\* maxRequests of the fetches it has started.
C29_FetchesWithinQuota ==
    \A i \in DOMAIN fetches :
       Cardinality(FetchesInWindow(fetches[i].t)) <= maxRequests

\* A call has been rejected while the calls that took the last slots are
\* still suspended at their fetch.
C29_Witness ==
    /\ last.op = "makeRequest" /\ last.path = "limited"
    /\ Len(inflight) = maxRequests
    /\ Cardinality(FetchesInWindow(now)) = maxRequests

\* C27: a get(key) that returns data leaves the store as it was but for the
\* lastAccessed field of that key's entry, which becomes the time of the
\* call.
C27_GetTouchesOnlyLastAccessed ==
    [][now' = now /\ last'.op = "get" /\ last'.ret = "data"
         => /\ DOMAIN store' = DOMAIN store
            /\ \A k \in DOMAIN store \ {last'.key} : store'[k] = store[k]
            /\ \A f \in {"data", "timestamp", "expires", "priority", "size",
                          "version"} :
                  store'[last'.key][f] = store[last'.key][f]
            /\ store'[last'.key].lastAccessed = now]_vars

\* A get has returned data at a later time than the entry's last access,
\* with another entry in the store.
C27_Witness ==
    /\ last.op = "get" /\ last.ret = "data"
    /\ Cardinality(DOMAIN store) > 1
    /\ now > 1

\* C28: the enforceStorageLimit() of a set() returns (set() reports true);
\* it removes nothing when the total after the write is within the budget;
\* otherwise it only removes entries, leaving the others as they were, and
\* stops with the total at 80% of the budget or less, which it reaches at
\* the latest by removing every entry, an entry above the budget included.
C28_EvictionBestEffort ==
    [][SetStep /\ last'.path = "normal"
         => /\ last'.ret = "true"
            /\ DOMAIN store' \subseteq DOMAIN AfterWrite
            /\ \A k \in DOMAIN store' : store'[k] = AfterWrite[k]
            /\ TotalBytes(AfterWrite) <= maxCacheSize => store' = AfterWrite
            /\ TotalBytes(AfterWrite) > maxCacheSize
                 => 5 * TotalBytes(store') <= 4 * maxCacheSize
            /\ (\E k \in DOMAIN AfterWrite : ByteSize(AfterWrite[k]) > maxCacheSize)
                 => \A k \in DOMAIN store' : ByteSize(store'[k]) <= maxCacheSize]_vars

\* A set() has written an entry that alone exceeds the budget, and the
\* eviction has emptied the store.
C28_Witness ==
    /\ last.op = "set" /\ last.path = "normal" /\ last.ret = "true"
    /\ \E w \in last.written : ByteSize(Stringify(w)) > maxCacheSize
    /\ store = <<>>

\* C30: every change added is in the 'pending_changes' entry until it has
\* been handed to processPendingChange, and no change is handed over twice.
C30_NoPendingChangeLost ==
    /\ \A c \in 1..added :
          \/ \E i \in DOMAIN pending : pending[i] = c
          \/ \E i \in DOMAIN processed : processed[i] = c
    /\ \A i, j \in DOMAIN processed : processed[i] = processed[j] => i = j

====
